---- MODULE Spec2Model ----
(***************************************************************************)
(* Model of knows/output_format.py: OutputFormat.to_format and the         *)
(* YARS-PG / YARS-PG RDF serializers, over a networkx directed graph that  *)
(* is built by add_node / add_edge calls.                                  *)
(*                                                                         *)
(* self.graph.graph is a networkx directed graph.  Its class is chosen by  *)
(* the Graph wrapper that owns it, so both directed classes are covered:   *)
(* DiGraph (one edge per ordered pair) and MultiDiGraph (parallel edges).  *)
(* nodes(data=True) iterates G._node in insertion order; edges(data=True)  *)
(* iterates the adjacency G._adj: node by node, successor by successor.    *)
(*                                                                         *)
(* Strings are sequences of atoms.  An atom is either the newline          *)
(* character "\n" or a newline-free piece of text; the string a sequence   *)
(* stands for is the concatenation of its atoms (Cat).  The literal        *)
(* segments of the f-strings of the source are single atoms.               *)
(***************************************************************************)
EXTENDS Integers, Sequences, FiniteSets, TLC

VARIABLES
    multigraph,     \* TRUE: self.graph.graph is a MultiDiGraph, FALSE: a DiGraph
    nodes,          \* G._node: insertion-ordered sequence of [id, attrs]
    adj,            \* G._adj: per node (same order) the insertion-ordered
                    \* successors [v, eds], eds the data dicts of the edges u->v
    nodeLog,        \* history: node ids in the order they were first added
    edgeLog,        \* history: the add_edge calls [u, v, attrs] in call order
    calls,          \* history: the number of add_node / add_edge calls so far
    pc,             \* "build" while the graph is built, "done" after to_format
    fmt,            \* format_type of the to_format call
    ran,            \* the renderer that to_format invoked ("none" if none)
    nodes_output,   \* the renderer's local list nodes_output
    edges_output,   \* the renderer's local list edges_output
    result          \* what to_format returned or raised

vars == <<multigraph, nodes, adj, nodeLog, edgeLog, calls, pc, fmt, ran,
          nodes_output, edges_output, result>>

\* Bound on the number of add_node / add_edge calls that build the graph.
MaxCalls == 3

(***************************************************************************)
(* Python values: identifiers and attribute values.                        *)
(***************************************************************************)
PyInt(n) == [t |-> "int", i |-> n, s |-> <<>>]
PyStr(s) == [t |-> "str", i |-> 0, s |-> s]
PyBool(b) == [t |-> "bool", i |-> IF b THEN 1 ELSE 0, s |-> <<>>]
\* An object whose __str__ raises; s is the message of the exception it raises.
PyBad == [t |-> "bad", i |-> 0, s |-> <<"cannot convert">>]

NL == "\n"

RECURSIVE Cat(_)
Cat(s) == IF s = <<>> THEN "" ELSE Head(s) \o Cat(Tail(s))

\* format(value, '') as the f-string fields of the source apply it.
Convertible(v) == v.t # "bad"

StrOf(v) ==
    CASE v.t = "int" -> <<ToString(v.i)>>
      [] v.t = "bool" -> IF v.i = 1 THEN <<"True">> ELSE <<"False">>
      [] OTHER -> v.s

(***************************************************************************)
(* Attribute dicts: insertion-ordered sequences of [k, v], keys distinct.  *)
(***************************************************************************)
HasKey(d, k) == \E i \in 1..Len(d) : d[i].k = k

DictGet(d, k, default) ==
    IF HasKey(d, k) THEN d[CHOOSE i \in 1..Len(d) : d[i].k = k].v ELSE default

DictSet(d, k, v) ==
    IF HasKey(d, k)
    THEN [i \in 1..Len(d) |-> IF d[i].k = k THEN [k |-> k, v |-> v] ELSE d[i]]
    ELSE Append(d, [k |-> k, v |-> v])

RECURSIVE DictUpdate(_, _)
DictUpdate(d, a) ==
    IF a = <<>> THEN d ELSE DictUpdate(DictSet(d, Head(a).k, Head(a).v), Tail(a))

(***************************************************************************)
(* The networkx graph self.graph.graph: add_node, add_edge and the         *)
(* iteration order of nodes(data=True) and edges(data=True).               *)
(***************************************************************************)
EmptyDict == <<>>

HasNode(ns, n) == \E i \in 1..Len(ns) : ns[i].id = n

NodeIndex(ns, n) == CHOOSE i \in 1..Len(ns) : ns[i].id = n

\* add_node(n, **attr): a new node goes last; an existing one has its dict updated.
add_node(G, n, attr) ==
    IF HasNode(G.nodes, n)
    THEN [nodes |-> [i \in 1..Len(G.nodes) |->
                        IF G.nodes[i].id = n
                        THEN [id |-> n, attrs |-> DictUpdate(G.nodes[i].attrs, attr)]
                        ELSE G.nodes[i]],
          adj |-> G.adj]
    ELSE [nodes |-> Append(G.nodes, [id |-> n, attrs |-> attr]),
          adj |-> Append(G.adj, <<>>)]

\* The node that add_edge creates for an endpoint the graph does not have yet.
EnsureNode(G, n) == IF HasNode(G.nodes, n) THEN G ELSE add_node(G, n, EmptyDict)

HasSucc(row, v) == \E j \in 1..Len(row) : row[j].v = v

\* The successors of one node after an edge to v with data attr is added.
\* DiGraph: one data dict per (u, v), updated in place.  MultiDiGraph: every
\* call adds an edge under a new key, after the existing edges u->v.
AddSucc(row, v, attr, multi) ==
    IF HasSucc(row, v)
    THEN [j \in 1..Len(row) |->
            IF row[j].v = v
            THEN [v |-> v,
                  eds |-> IF multi THEN Append(row[j].eds, attr)
                          ELSE <<DictUpdate(row[j].eds[1], attr)>>]
            ELSE row[j]]
    ELSE Append(row, [v |-> v, eds |-> <<attr>>])

add_edge(G, u, v, attr, multi) ==
    LET G2 == EnsureNode(EnsureNode(G, u), v)
        iu == NodeIndex(G2.nodes, u)
    IN  [nodes |-> G2.nodes,
         adj |-> [i \in 1..Len(G2.adj) |->
                    IF i = iu THEN AddSucc(G2.adj[i], v, attr, multi) ELSE G2.adj[i]]]

\* graph.nodes(data=True): (id, attrs) in the order of G._node.
nodes_data(G) == G.nodes

RECURSIVE RowEdges(_, _)
RowEdges(u, row) ==
    IF row = <<>> THEN <<>>
    ELSE [k \in 1..Len(Head(row).eds) |->
            [u |-> u, v |-> Head(row).v, attrs |-> Head(row).eds[k]]]
         \o RowEdges(u, Tail(row))

RECURSIVE EdgesFrom(_, _)
EdgesFrom(G, i) ==
    IF i > Len(G.nodes) THEN <<>>
    ELSE RowEdges(G.nodes[i].id, G.adj[i]) \o EdgesFrom(G, i + 1)

\* graph.edges(data=True): for every node in node order, for every successor
\* in the order it was first connected, every edge between the two.
edges_data(G) == EdgesFrom(G, 1)

(***************************************************************************)
(* The YARS-PG serializer.  A formatter returns [ok, text, msg]: the text  *)
(* when it returns, the message of the exception when it raises.           *)
(***************************************************************************)
Returns(t) == [ok |-> TRUE, text |-> t, msg |-> <<>>]
Raises(m) == [ok |-> FALSE, text |-> <<>>, msg |-> m]

\* Join with the separator after every item, the last one included.
RECURSIVE JoinTrailing(_, _)
JoinTrailing(sep, items) ==
    IF items = <<>> THEN <<>> ELSE items[1] \o sep \o JoinTrailing(sep, Tail(items))

RECURSIVE Join(_, _)
Join(sep, items) ==
    IF items = <<>> THEN <<>>
    ELSE IF Len(items) = 1 THEN items[1]
    ELSE items[1] \o sep \o Join(sep, Tail(items))

\* A list comprehension over formatter results: the first element that raises
\* ends it with that exception, otherwise the list of the texts.
FirstRaise(rs) == CHOOSE i \in 1..Len(rs) : ~rs[i].ok /\ \A j \in 1..(i - 1) : rs[j].ok

Comprehension(rs) ==
    IF \E i \in 1..Len(rs) : ~rs[i].ok
    THEN [ok |-> FALSE, items |-> <<>>, msg |-> rs[FirstRaise(rs)].msg]
    ELSE [ok |-> TRUE, items |-> [i \in 1..Len(rs) |-> rs[i].text], msg |-> <<>>]

\* f'"{key}": "{value}"'
Entry(kv) ==
    IF Convertible(kv.v)
    THEN Returns(<<"\"", kv.k, "\": \"">> \o StrOf(kv.v) \o <<"\"">>)
    ELSE Raises(kv.v.s)

\* The filter with the key misspelt.
NotLabelMisspelt(kv) == kv.k # "Label"

NotLabel(kv) == kv.k # "label"

\* ', '.join([f'"{key}": "{value}"' for key, value in attributes.items() if key != 'label'])
prop_list(attributes) ==
    LET kept == SelectSeq(attributes, NotLabel)
        c == Comprehension([i \in 1..Len(kept) |-> Entry(kept[i])])
    IN  IF c.ok THEN Returns(Join(<<", ">>, c.items)) ELSE Raises(c.msg)

\* attributes.get('label') with the empty string for a default.
DefaultLabelEmpty == PyStr(<<"">>)

DefaultLabel == PyStr(<<"label">>)

\* f"({node_id} {{\"{label}\"}}[{prop_list}])"
NodeTerm(node_id, label, props) ==
    IF ~props.ok THEN props
    ELSE IF ~Convertible(label) THEN Raises(label.s)
    ELSE Returns(<<"(">> \o StrOf(node_id) \o <<" {\"">> \o StrOf(label)
                 \o <<"\"}[">> \o props.text \o <<"])">>)

\* f"({u})-({{\"{label}\"}}[{prop_list}])->({v})"
EdgeTerm(u, v, label, props) ==
    IF ~props.ok THEN props
    ELSE IF ~Convertible(label) THEN Raises(label.s)
    ELSE Returns(<<"(">> \o StrOf(u) \o <<")-({\"">> \o StrOf(label)
                 \o <<"\"}[">> \o props.text \o <<"])->(">> \o StrOf(v) \o <<")">>)

_format_node_yarspg(node) ==
    NodeTerm(node.id, DictGet(node.attrs, "label", DefaultLabel), prop_list(node.attrs))

_format_edge_yarspg(edge) ==
    EdgeTerm(edge.u, edge.v, DictGet(edge.attrs, "label", DefaultLabel),
             prop_list(edge.attrs))

PersonAttributes ==
    << [k |-> "label", v |-> PyStr(<<"IRI">>)],
       [k |-> "@value", v |-> PyStr(<<"https://w3id.org/MON/person.owl#Person">>)] >>

FriendOfAttributes ==
    << [k |-> "label", v |-> PyStr(<<"IRI">>)],
       [k |-> "@value", v |-> PyStr(<<"https://w3id.org/MON/person.owl#friendOf">>)] >>

\* The RDF node formatter reading the label of the node's own attributes.
_format_node_yarspg_rdf_own_label(node) ==
    NodeTerm(node.id, DictGet(node.attrs, "label", DefaultLabel),
             prop_list(PersonAttributes))

_format_node_yarspg_rdf(node) ==
    NodeTerm(node.id, DictGet(PersonAttributes, "label", DefaultLabel),
             prop_list(PersonAttributes))

_format_edge_yarspg_rdf(edge) ==
    EdgeTerm(edge.u, edge.v, DictGet(FriendOfAttributes, "label", DefaultLabel),
             prop_list(FriendOfAttributes))

(***************************************************************************)
(* The renderers.  A renderer's outcome: [kind, text, exc, msg] and the    *)
(* two local lists as far as they were built.                              *)
(***************************************************************************)
Outcome(kind, text, exc, msg, nout, eout) ==
    [kind |-> kind, text |-> text, exc |-> exc, msg |-> msg,
     nodes_output |-> nout, edges_output |-> eout]

NodeResults(G, rdf) ==
    [i \in 1..Len(nodes_data(G)) |->
        IF rdf THEN _format_node_yarspg_rdf(nodes_data(G)[i])
        ELSE _format_node_yarspg(nodes_data(G)[i])]

EdgeResults(G, rdf) ==
    [i \in 1..Len(edges_data(G)) |->
        IF rdf THEN _format_edge_yarspg_rdf(edges_data(G)[i])
        ELSE _format_edge_yarspg(edges_data(G)[i])]

\* '\n'.join(edges_output + nodes_output)
YarspgDocumentEdgesFirst(nout, eout) == Join(<<NL>>, eout \o nout)

\* '\n'.join(nodes_output + edges_output)
YarspgDocument(nout, eout) == Join(<<NL>>, nout \o eout)

\* _to_yarspg walking the edges backwards.
_to_yarspg_reversed(G) ==
    LET n == Comprehension(NodeResults(G, FALSE))
        e == Comprehension(EdgeResults(G, FALSE))
        back == [j \in 1..Len(e.items) |-> e.items[Len(e.items) + 1 - j]]
    IN  IF ~n.ok THEN Outcome("raised", <<>>, "StrError", n.msg, <<>>, <<>>)
        ELSE IF ~e.ok THEN Outcome("raised", <<>>, "StrError", e.msg, n.items, <<>>)
        ELSE Outcome("returned", YarspgDocument(n.items, back), "", <<>>, n.items, back)

_to_yarspg(G) ==
    LET n == Comprehension(NodeResults(G, FALSE))
        e == Comprehension(EdgeResults(G, FALSE))
    IN  IF ~n.ok THEN Outcome("raised", <<>>, "StrError", n.msg, <<>>, <<>>)
        ELSE IF ~e.ok THEN Outcome("raised", <<>>, "StrError", e.msg, n.items, <<>>)
        ELSE Outcome("returned", YarspgDocument(n.items, e.items), "", <<>>,
                     n.items, e.items)

\* edges_section = '\n# Nodes\n'
RdfDocumentSameHeader(nout, eout) ==
    <<"# Nodes", NL>> \o Join(<<NL>>, nout) \o <<NL, "# Nodes", NL>> \o Join(<<NL>>, eout)

\* edges_section = '# Edges\n'
RdfDocumentNoBreak(nout, eout) ==
    <<"# Nodes", NL>> \o Join(<<NL>>, nout) \o <<"# Edges", NL>> \o Join(<<NL>>, eout)

\* f"{nodes_section}{nodes_output_str}{edges_section}{edges_output_str}"
RdfDocument(nout, eout) ==
    <<"# Nodes", NL>> \o Join(<<NL>>, nout) \o <<NL, "# Edges", NL>> \o Join(<<NL>>, eout)

_to_yarspg_rdf(G) ==
    LET n == Comprehension(NodeResults(G, TRUE))
        e == Comprehension(EdgeResults(G, TRUE))
    IN  IF ~n.ok THEN Outcome("raised", <<>>, "StrError", n.msg, <<>>, <<>>)
        ELSE IF ~e.ok THEN Outcome("raised", <<>>, "StrError", e.msg, n.items, <<>>)
        ELSE Outcome("returned", RdfDocument(n.items, e.items), "", <<>>,
                     n.items, e.items)

\* The renderers that hand the graph to networkx generators or to GraphDrawer:
\* their text is the collaborator's, one opaque atom here.
External(name) == Outcome("returned", <<"<" \o name \o " document>">>, "", <<>>, <<>>, <<>>)

\* The dispatch table of to_format.
format_methods ==
    [f \in {"graphml", "yarspg", "yarspg-rdf", "gexf", "gml", "svg", "adjacency_list",
            "multiline_adjacency_list", "edge_list", "json"} |->
        CASE f = "graphml" -> "_to_graphml"
          [] f = "yarspg" -> "_to_yarspg"
          [] f = "yarspg-rdf" -> "_to_yarspg_rdf"
          [] f = "gexf" -> "_to_gexf"
          [] f = "gml" -> "_to_gml"
          [] f = "svg" -> "_to_svg"
          [] f = "adjacency_list" -> "_to_adjacency_list"
          [] f = "multiline_adjacency_list" -> "_to_multiline_adjacency_list"
          [] f = "edge_list" -> "_to_edge_list"
          [] OTHER -> "_to_json"]

Run(method, G) ==
    CASE method = "_to_yarspg" -> _to_yarspg(G)
      [] method = "_to_yarspg_rdf" -> _to_yarspg_rdf(G)
      [] OTHER -> External(method)

\* format_methods.get(format_type, self._to_yarspg)()
to_format_with_default(G, format_type) ==
    IF format_type \in DOMAIN format_methods
    THEN [ran |-> format_methods[format_type],
          out |-> Run(format_methods[format_type], G)]
    ELSE [ran |-> "_to_yarspg", out |-> _to_yarspg(G)]

\* format_methods[format_type](): [ran, out]
to_format(G, format_type) ==
    IF format_type \in DOMAIN format_methods
    THEN [ran |-> format_methods[format_type],
          out |-> Run(format_methods[format_type], G)]
    ELSE [ran |-> "none",
          out |-> Outcome("raised", <<>>, "KeyError", <<format_type>>, <<>>, <<>>)]

(***************************************************************************)
(* Inputs.                                                                 *)
(***************************************************************************)
KV(k, v) == [k |-> k, v |-> v]

\* The ids given to add_node, and those given to add_edge (which adds the
\* nodes it does not find).
NodeIds == {PyInt(1), PyStr(<<"n", NL, "# Nodes", NL, "m">>)}

EdgeEnds == {PyInt(1), PyInt(2)}

NodeAttrs ==
    { <<>>,
      <<KV("name", PyStr(<<"Alice">>)), KV("label", PyStr(<<"Person">>)), KV("age", PyInt(30))>>,
      <<KV("bio", PyStr(<<"a", NL, "b">>))>>,
      <<KV("w", PyBad)>> }

EdgeAttrs ==
    { <<KV("label", PyStr(<<"knows">>))>>,
      <<KV("since", PyInt(2020)), KV("active", PyBool(TRUE))>>,
      <<KV("w", PyBad)>> }

FormatNames == DOMAIN format_methods \cup {"unknown"}

(***************************************************************************)
(* The state machine.                                                      *)
(***************************************************************************)
NoOutcome == [kind |-> "none", text |-> <<>>, exc |-> "", msg |-> <<>>]

Graph == [nodes |-> nodes, adj |-> adj]

Init ==
    /\ multigraph \in BOOLEAN
    /\ nodes = <<>>
    /\ adj = <<>>
    /\ nodeLog = <<>>
    /\ edgeLog = <<>>
    /\ calls = 0
    /\ pc = "build"
    /\ fmt = ""
    /\ ran = "none"
    /\ nodes_output = <<>>
    /\ edges_output = <<>>
    /\ result = NoOutcome

\* The ids that a call adds to the graph, in the order it adds them.
NewIds(ns, ids) ==
    SelectSeq(ids, LAMBDA n : ~HasNode(ns, n))

AddNode(n, attr) ==
    /\ pc = "build"
    /\ calls < MaxCalls
    /\ calls' = calls + 1
    /\ LET G2 == add_node(Graph, n, attr)
       IN  /\ nodes' = G2.nodes
           /\ adj' = G2.adj
    /\ nodeLog' = nodeLog \o NewIds(nodes, <<n>>)
    /\ UNCHANGED <<multigraph, edgeLog, pc, fmt, ran, nodes_output, edges_output, result>>

AddEdge(u, v, attr) ==
    /\ pc = "build"
    /\ calls < MaxCalls
    /\ calls' = calls + 1
    /\ LET G2 == add_edge(Graph, u, v, attr, multigraph)
       IN  /\ nodes' = G2.nodes
           /\ adj' = G2.adj
    /\ nodeLog' = nodeLog \o NewIds(nodes, IF u = v THEN <<u>> ELSE <<u, v>>)
    /\ edgeLog' = Append(edgeLog, [u |-> u, v |-> v, attrs |-> attr])
    /\ UNCHANGED <<multigraph, pc, fmt, ran, nodes_output, edges_output, result>>

ToFormat(format_type) ==
    /\ pc = "build"
    /\ LET r == to_format(Graph, format_type)
       IN  /\ ran' = r.ran
           /\ nodes_output' = r.out.nodes_output
           /\ edges_output' = r.out.edges_output
           /\ result' = [kind |-> r.out.kind, text |-> r.out.text,
                         exc |-> r.out.exc, msg |-> r.out.msg]
    /\ fmt' = format_type
    /\ pc' = "done"
    /\ UNCHANGED <<multigraph, nodes, adj, nodeLog, edgeLog, calls>>

Next ==
    \/ \E n \in NodeIds, attr \in NodeAttrs : AddNode(n, attr)
    \/ \E u \in EdgeEnds, v \in EdgeEnds, attr \in EdgeAttrs : AddEdge(u, v, attr)
    \/ \E format_type \in FormatNames : ToFormat(format_type)

Spec == Init /\ [][Next]_vars

(***************************************************************************)
(* Reading an output back: lines, and the parts of a term.                 *)
(***************************************************************************)
Occurs(t, a) == \E i \in 1..Len(t) : t[i] = a

First(t, a) == CHOOSE i \in 1..Len(t) : t[i] = a /\ \A j \in 1..(i - 1) : t[j] # a

\* text.split('\n'), every line as one string.
RECURSIVE Lines(_)
Lines(t) ==
    IF ~Occurs(t, NL) THEN <<Cat(t)>>
    ELSE <<Cat(SubSeq(t, 1, First(t, NL) - 1))>> \o Lines(SubSeq(t, First(t, NL) + 1, Len(t)))

Count(seq, x) == Cardinality({i \in 1..Len(seq) : seq[i] = x})

\* The text between {" and "} of a term.
LabelOf(term) ==
    LET a == IF Occurs(term, " {\"") THEN First(term, " {\"") ELSE First(term, ")-({\"")
    IN  Cat(SubSeq(term, a + 1, First(term, "\"}[") - 1))

\* The atoms between [ and ] of a term.
PropsOf(term) ==
    LET b == IF Occurs(term, "])") THEN First(term, "])") ELSE First(term, "])->(")
    IN  SubSeq(term, First(term, "\"}[") + 1, b - 1)

\* The keys of the entries of a property list, in the order they are emitted.
RECURSIVE EmittedKeys(_)
EmittedKeys(props) ==
    IF ~Occurs(props, "\": \"") THEN <<>>
    ELSE LET i == First(props, "\": \"")
         IN  <<props[i - 1]>> \o EmittedKeys(SubSeq(props, i + 1, Len(props)))

\* The identifier a node term opens with; the two identifiers of an edge term.
NodeIdOf(term) == Cat(SubSeq(term, 2, First(term, " {\"") - 1))
SourceOf(term) == Cat(SubSeq(term, 2, First(term, ")-({\"") - 1))
TargetOf(term) == Cat(SubSeq(term, First(term, "])->(") + 1, Len(term) - 1))

IdText(n) == Cat(StrOf(n))

Keys(d) == {d[i].k : i \in 1..Len(d)}

RECURSIVE Sum(_)
Sum(ns) == IF ns = <<>> THEN 0 ELSE Head(ns) + Sum(Tail(ns))

\* |edges|: the number of data dicts in the adjacency.
NumberOfEdges ==
    Sum([i \in 1..Len(adj) |-> Sum([j \in 1..Len(adj[i]) |-> Len(adj[i][j].eds)])])

NumberOfNodes == Len(nodes)

Done(f) == pc = "done" /\ fmt = f

Returned(f) == Done(f) /\ result.kind = "returned"

\* No identifier and no attribute value of the graph has a newline in its string form.
HasNewline(v) == Convertible(v) /\ Occurs(StrOf(v), NL)

NewlineFreeIds == \A i \in 1..Len(nodes) : ~HasNewline(nodes[i].id)

NewlineFree ==
    /\ NewlineFreeIds
    /\ \A i \in 1..Len(nodes) : \A a \in 1..Len(nodes[i].attrs) :
          ~HasNewline(nodes[i].attrs[a].v)
    /\ \A e \in 1..Len(edges_data(Graph)) : \A a \in 1..Len(edges_data(Graph)[e].attrs) :
          ~HasNewline(edges_data(Graph)[e].attrs[a].v)

(***************************************************************************)
(* C1.  The yarspg output split on newline has |nodes| + |edges| lines,    *)
(* the node-term lines before the edge-term lines.                         *)
(***************************************************************************)
LinesAreTerms ==
    LET L == Lines(result.text)
    IN  /\ Len(L) = NumberOfNodes + NumberOfEdges
        /\ Len(nodes_output) = NumberOfNodes
        /\ Len(edges_output) = NumberOfEdges
        /\ \A i \in 1..NumberOfNodes : L[i] = Cat(nodes_output[i])
        /\ \A j \in 1..NumberOfEdges : L[NumberOfNodes + j] = Cat(edges_output[j])

\* C1 as stated: for every graph, the yarspg output split on "\n" has exactly
\* |nodes| + |edges| lines, every node-term line before every edge-term line.
C1_EveryGraph == Returned("yarspg") => LinesAreTerms

\* C1 amended: the same, for a graph that has at least one node and in which no
\* identifier and no attribute value has a newline in its string form.
C1_LineShape ==
    (Returned("yarspg") /\ NumberOfNodes > 0 /\ NewlineFree) => LinesAreTerms

C1_Witness ==
    /\ Returned("yarspg")
    /\ NewlineFree
    /\ NumberOfNodes = 2
    /\ NumberOfEdges = 2
    /\ Len(Lines(result.text)) = 4

(***************************************************************************)
(* C2.  The yarspg-rdf output has one "# Nodes" line and one "# Edges"     *)
(* line, in that order.                                                    *)
(***************************************************************************)
OneHeaderEach ==
    LET L == Lines(result.text)
    IN  /\ Count(L, "# Nodes") = 1
        /\ Count(L, "# Edges") = 1
        /\ First(L, "# Nodes") < First(L, "# Edges")

\* C2 as stated: for every graph, the yarspg-rdf output contains exactly one line
\* equal to "# Nodes" and exactly one equal to "# Edges", the first before the second.
C2_EveryGraph == Returned("yarspg-rdf") => OneHeaderEach

\* C2 amended: the same, for a graph in which no node identifier has a newline in
\* its string form.
C2_Headers == (Returned("yarspg-rdf") /\ NewlineFreeIds) => OneHeaderEach

C2_Witness ==
    /\ Returned("yarspg-rdf")
    /\ NewlineFreeIds
    /\ ~NewlineFree
    /\ NumberOfNodes = 2
    /\ NumberOfEdges >= 1

(***************************************************************************)
(* C3.  The yarspg-rdf output does not depend on attribute content.        *)
(***************************************************************************)
\* The same topology with every attribute dict emptied.
Stripped ==
    [nodes |-> [i \in 1..Len(nodes) |-> [id |-> nodes[i].id, attrs |-> <<>>]],
     adj |-> [i \in 1..Len(adj) |-> [j \in 1..Len(adj[i]) |->
                [v |-> adj[i][j].v,
                 eds |-> [k \in 1..Len(adj[i][j].eds) |-> <<>>]]]]]

PersonProps == "[\"@value\": \"https://w3id.org/MON/person.owl#Person\"]"
FriendOfProps == "[\"@value\": \"https://w3id.org/MON/person.owl#friendOf\"]"

\* C3: the yarspg-rdf output is the one of the graph with all attributes removed,
\* whatever the attributes are (no attribute can make it fail either); every node
\* term is (<id> {"IRI"}["@value": "...#Person"]) and every edge term is
\* (<src>)-({"IRI"}["@value": "...#friendOf"])->(<dst>).
C3_AttributeBlind ==
    Done("yarspg-rdf") =>
        /\ result.kind = "returned"
        /\ result.text = _to_yarspg_rdf(Stripped).text
        /\ Len(nodes_output) = NumberOfNodes
        /\ Len(edges_output) = NumberOfEdges
        /\ \A i \in 1..Len(nodes_output) :
              Cat(nodes_output[i])
                = "(" \o IdText(nodes[i].id) \o " {\"IRI\"}" \o PersonProps \o ")"
        /\ \A j \in 1..Len(edges_output) :
              Cat(edges_output[j])
                = "(" \o IdText(edges_data(Graph)[j].u) \o ")-({\"IRI\"}" \o FriendOfProps
                  \o ")->(" \o IdText(edges_data(Graph)[j].v) \o ")"

C3_Witness ==
    /\ Returned("yarspg-rdf")
    /\ \E i \in 1..Len(nodes) : HasKey(nodes[i].attrs, "label")
    /\ \E i \in 1..Len(nodes) : \E a \in 1..Len(nodes[i].attrs) :
          ~Convertible(nodes[i].attrs[a].v)
    /\ \E j \in 1..Len(edges_data(Graph)) : HasKey(edges_data(Graph)[j].attrs, "label")

(***************************************************************************)
(* C4.  No emitted entry has the key "label"; every other key has one.     *)
(***************************************************************************)
\* The entries of a term are those of its attribute source without "label".
EntriesMatch(term, source) ==
    LET keys == EmittedKeys(PropsOf(term))
    IN  /\ Count(keys, "label") = 0
        /\ \A k \in Keys(source) \ {"label"} : Count(keys, k) = 1
        /\ Len(keys) = Cardinality(Keys(source) \ {"label"})

\* C4: in yarspg and in yarspg-rdf mode, the property list of every node and edge
\* term has no entry with key "label" and exactly one entry for each other key of
\* the attribute source (the element's dict, or the fixed dict in RDF mode).
C4_NoLabelEntry ==
    /\ Returned("yarspg") =>
          /\ \A i \in 1..Len(nodes_output) : EntriesMatch(nodes_output[i], nodes[i].attrs)
          /\ \A j \in 1..Len(edges_output) :
                EntriesMatch(edges_output[j], edges_data(Graph)[j].attrs)
    /\ Returned("yarspg-rdf") =>
          /\ \A i \in 1..Len(nodes_output) : EntriesMatch(nodes_output[i], PersonAttributes)
          /\ \A j \in 1..Len(edges_output) : EntriesMatch(edges_output[j], FriendOfAttributes)

C4_Witness ==
    /\ Returned("yarspg")
    /\ \E i \in 1..Len(nodes_output) :
          /\ HasKey(nodes[i].attrs, "label")
          /\ Len(EmittedKeys(PropsOf(nodes_output[i]))) >= 2
    /\ \E j \in 1..Len(edges_output) : HasKey(edges_data(Graph)[j].attrs, "label")

(***************************************************************************)
(* C5.  A missing "label" key renders the label "label".                   *)
(***************************************************************************)
ExpectedLabel(attrs) ==
    IF HasKey(attrs, "label")
    THEN Cat(StrOf(attrs[CHOOSE a \in 1..Len(attrs) : attrs[a].k = "label"].v))
    ELSE "label"

AllConvertible ==
    /\ \A i \in 1..Len(nodes) : \A a \in 1..Len(nodes[i].attrs) :
          Convertible(nodes[i].attrs[a].v)
    /\ \A e \in 1..Len(edges_data(Graph)) : \A a \in 1..Len(edges_data(Graph)[e].attrs) :
          Convertible(edges_data(Graph)[e].attrs[a].v)

\* C5: in yarspg mode the label of every node and edge term is the value of the
\* element's "label" key, and the literal label when it has no such key; a missing
\* label raises nothing (a graph whose values all convert is rendered).
C5_DefaultLabel ==
    /\ (Done("yarspg") /\ AllConvertible) => result.kind = "returned"
    /\ Returned("yarspg") =>
          /\ \A i \in 1..Len(nodes_output) :
                LabelOf(nodes_output[i]) = ExpectedLabel(nodes[i].attrs)
          /\ \A j \in 1..Len(edges_output) :
                LabelOf(edges_output[j]) = ExpectedLabel(edges_data(Graph)[j].attrs)

C5_Witness ==
    /\ Returned("yarspg")
    /\ \E i \in 1..Len(nodes_output) :
          ~HasKey(nodes[i].attrs, "label") /\ LabelOf(nodes_output[i]) = "label"
    /\ \E i \in 1..Len(nodes_output) : LabelOf(nodes_output[i]) = "Person"
    /\ \E j \in 1..Len(edges_output) :
          ~HasKey(edges_data(Graph)[j].attrs, "label") /\ LabelOf(edges_output[j]) = "label"

(***************************************************************************)
(* C6.  An unknown format name is a KeyError and nothing else happens.     *)
(***************************************************************************)
SupportedNames ==
    {"graphml", "yarspg", "yarspg-rdf", "gexf", "gml", "svg", "adjacency_list",
     "multiline_adjacency_list", "edge_list", "json"}

\* C6: to_format with a name outside the ten supported names raises a KeyError
\* for that name, runs no renderer and returns no text.
C6_UnknownFormat ==
    (pc = "done" /\ fmt \notin SupportedNames) =>
        /\ result.kind = "raised"
        /\ result.exc = "KeyError"
        /\ result.msg = <<fmt>>
        /\ result.text = <<>>
        /\ ran = "none"
        /\ nodes_output = <<>>
        /\ edges_output = <<>>

C6_Witness ==
    /\ pc = "done"
    /\ fmt = "unknown"
    /\ NumberOfNodes > 0
    /\ result.exc = "KeyError"

(***************************************************************************)
(* C7.  The empty graph is rendered, not rejected.                         *)
(***************************************************************************)
EmptyGraph == NumberOfNodes = 0 /\ NumberOfEdges = 0

\* C7: for the empty graph, yarspg returns the empty string and yarspg-rdf
\* returns the two headers with no node term and no edge term.
C7_EmptyGraph ==
    /\ (Done("yarspg") /\ EmptyGraph) =>
          result.kind = "returned" /\ result.text = <<>> /\ Lines(result.text) = <<"">>
    /\ (Done("yarspg-rdf") /\ EmptyGraph) =>
          /\ result.kind = "returned"
          /\ Lines(result.text) = <<"# Nodes", "", "# Edges", "">>
          /\ nodes_output = <<>>
          /\ edges_output = <<>>

C7_Witness == Returned("yarspg-rdf") /\ EmptyGraph /\ Len(result.text) = 5

(***************************************************************************)
(* C8.  An unconvertible value fails with an error that names its key.     *)
(***************************************************************************)
\* The keys whose value cannot be converted to a string.
OffendingKeys ==
    {k \in UNION ({Keys(nodes[i].attrs) : i \in 1..Len(nodes)}
                  \cup {Keys(edges_data(Graph)[e].attrs) : e \in 1..Len(edges_data(Graph))}) :
        \/ \E i \in 1..Len(nodes) : \E a \in 1..Len(nodes[i].attrs) :
              nodes[i].attrs[a].k = k /\ ~Convertible(nodes[i].attrs[a].v)
        \/ \E e \in 1..Len(edges_data(Graph)) : \E a \in 1..Len(edges_data(Graph)[e].attrs) :
              /\ edges_data(Graph)[e].attrs[a].k = k
              /\ ~Convertible(edges_data(Graph)[e].attrs[a].v)}

\* C8 as stated: when a value cannot be converted, to_format('yarspg') raises an
\* error that identifies the offending key, and returns no partial output.
C8_ErrorNamesKey ==
    (Done("yarspg") /\ ~AllConvertible) =>
        /\ result.kind = "raised"
        /\ result.text = <<>>
        /\ \E k \in OffendingKeys : Occurs(result.msg, k)

(***************************************************************************)
(* C9.  The order of the node terms and of the edge terms.                 *)
(***************************************************************************)
Pos(n) == CHOOSE i \in 1..Len(nodeLog) : nodeLog[i] = n

SamePair(j, k) == edgeLog[j].u = edgeLog[k].u /\ edgeLog[j].v = edgeLog[k].v

\* The first add_edge call for the pair of call j.
FirstCall(j) == CHOOSE f \in 1..j : SamePair(f, j) /\ \A g \in 1..(f - 1) : ~SamePair(g, j)

\* The calls that made an edge of their own: all of them in a multigraph, the
\* first of each (source, target) pair in a simple digraph.
OwnEdge == {j \in 1..Len(edgeLog) : multigraph \/ FirstCall(j) = j}

\* Adjacency order: by the source's position among the nodes, then by the first
\* call that connected the target, then by call.
Before(j, k) ==
    \/ Pos(edgeLog[j].u) < Pos(edgeLog[k].u)
    \/ /\ edgeLog[j].u = edgeLog[k].u
       /\ \/ FirstCall(j) < FirstCall(k)
          \/ FirstCall(j) = FirstCall(k) /\ j < k

Rank(j) == 1 + Cardinality({k \in OwnEdge : Before(k, j)})

NodeTermsInInsertionOrder ==
    /\ Len(nodes_output) = Len(nodeLog)
    /\ \A i \in 1..Len(nodeLog) : NodeIdOf(nodes_output[i]) = IdText(nodeLog[i])

IsTermOf(term, call) ==
    SourceOf(term) = IdText(call.u) /\ TargetOf(term) = IdText(call.v)

\* C9 as stated, for a multigraph (where parallel edges are edges of their own):
\* the i-th node term is the i-th node added and the j-th edge term is the j-th
\* edge added, parallel edges each yielding a term.
C9_InsertionOrder ==
    (Returned("yarspg") /\ multigraph) =>
        /\ NodeTermsInInsertionOrder
        /\ Len(edges_output) = Len(edgeLog)
        /\ \A j \in 1..Len(edgeLog) : IsTermOf(edges_output[j], edgeLog[j])

\* C9 amended: the i-th node term is the i-th node added; the edge terms are in
\* adjacency order (by source node in node-insertion order, then by the order in
\* which the source's targets were first connected, then by insertion), one term
\* for every edge added to a multigraph and one for every (source, target) pair
\* of a simple digraph.
C9_AdjacencyOrder ==
    Returned("yarspg") =>
        /\ NodeTermsInInsertionOrder
        /\ Len(edges_output) = Cardinality(OwnEdge)
        /\ \A j \in OwnEdge :
              /\ IsTermOf(edges_output[Rank(j)], edgeLog[j])
              /\ multigraph => edges_output[Rank(j)] = _format_edge_yarspg(edgeLog[j]).text

C9_Witness ==
    /\ Returned("yarspg")
    /\ multigraph
    /\ Len(edges_output) = 3
    /\ \E j, k \in 1..Len(edgeLog) : j < k /\ SamePair(j, k)
    /\ \E j \in 1..Len(edgeLog) : Rank(j) # j

(***************************************************************************)
(* C10.  The shape of the property list and of the term around it.         *)
(***************************************************************************)
RECURSIVE PropString(_, _)
PropString(attrs, first) ==
    IF attrs = <<>> THEN ""
    ELSE IF Head(attrs).k = "label" THEN PropString(Tail(attrs), first)
    ELSE (IF first THEN "" ELSE ", ")
         \o "\"" \o Head(attrs).k \o "\": \"" \o Cat(StrOf(Head(attrs).v)) \o "\""
         \o PropString(Tail(attrs), FALSE)

\* C10: the property list is the entries "<key>": "<value>" of the non-label
\* keys in insertion order, joined by ", " with nothing before or after; it is
\* empty when only "label" (or nothing) is there, and the term then ends in [].
C10_PropertyList ==
    Returned("yarspg") =>
        /\ \A i \in 1..Len(nodes_output) :
              /\ Cat(PropsOf(nodes_output[i])) = PropString(nodes[i].attrs, TRUE)
              /\ Cat(nodes_output[i])
                   = "(" \o IdText(nodes[i].id) \o " {\"" \o ExpectedLabel(nodes[i].attrs)
                     \o "\"}[" \o PropString(nodes[i].attrs, TRUE) \o "])"
              /\ Keys(nodes[i].attrs) \subseteq {"label"} =>
                    Cat(nodes_output[i])
                      = "(" \o IdText(nodes[i].id) \o " {\""
                        \o ExpectedLabel(nodes[i].attrs) \o "\"}[])"
        /\ \A j \in 1..Len(edges_output) :
              LET e == edges_data(Graph)[j]
              IN  /\ Cat(PropsOf(edges_output[j])) = PropString(e.attrs, TRUE)
                  /\ Cat(edges_output[j])
                       = "(" \o IdText(e.u) \o ")-({\"" \o ExpectedLabel(e.attrs)
                         \o "\"}[" \o PropString(e.attrs, TRUE) \o "])->(" \o IdText(e.v) \o ")"
                  /\ Keys(e.attrs) \subseteq {"label"} =>
                        Cat(edges_output[j])
                          = "(" \o IdText(e.u) \o ")-({\"" \o ExpectedLabel(e.attrs)
                            \o "\"}[])->(" \o IdText(e.v) \o ")"

C10_Witness ==
    /\ Returned("yarspg")
    /\ \E i \in 1..Len(nodes_output) :
          Cat(nodes_output[i]) = "(1 {\"Person\"}[\"name\": \"Alice\", \"age\": \"30\"])"
    /\ \E i \in 1..Len(nodes_output) : Cat(nodes_output[i]) = "(2 {\"label\"}[])"
    /\ \E j \in 1..Len(edges_output) : Cat(edges_output[j]) = "(1)-({\"knows\"}[])->(2)"

====
